---- MODULE Spec2Model ----
(***************************************************************************)
(* HLS conversion pipeline of bunserve: Resolution Planner                 *)
(* (determineTargetResolutions), Rendition Workers (processResolution),    *)
(* Playlist Builder (createMasterPlaylist, addMediaToMasterPlaylist), Task *)
(* Tracker (TaskQueue) and the Conversion Orchestrator (convertToHls).     *)
(*                                                                         *)
(* Strings are sequences of one-character strings, so that formatting     *)
(* (`${h}p`, `${w}x${h}`, Date.now().toString()) and parsing (parseInt)    *)
(* are computed, not assumed.                                              *)
(***************************************************************************)
EXTENDS Integers, Sequences, FiniteSets, TLC

VARIABLES
    clock,        \* Date.now()
    tasks,        \* TaskQueue.tasks : id -> [status, data]
    file,         \* contents of ./tasks.json (NoFile, or a task map)
    writes,       \* Bun.write calls in flight, each holding its serialized snapshot
    load,         \* position of TaskQueue.loadTasks and the content it has read
    resolutions,  \* options.resolutions, the rendition list the caller configures
    masterName,   \* options.masterPlaylistName
    conv,         \* one record per convertToHls invocation
    pin,          \* inputs of the Resolution Planner under study
    pout,         \* its output
    mres,         \* rendition results handed to createMasterPlaylist
    mfile,        \* the written master playlist (text lines), or NoFile
    mtracks,      \* tracks handed to addMediaToMasterPlaylist
    mstep,        \* position of the playlist scenario
    call,         \* a call of a utility function under study: name, arguments
    ret,          \* what the call returned
    disk          \* directories and files under the processed-videos root

vars == <<clock, tasks, file, writes, load, resolutions, masterName, conv,
          pin, pout, mres, mfile, mtracks, mstep, call, ret, disk>>

trackerVars == <<clock, tasks, file, writes, load>>
orchVars    == <<resolutions, masterName, conv>>
plannerVars == <<pin, pout>>
playlistVars == <<mres, mfile, mtracks, mstep>>
callVars == <<call, ret>>

-----------------------------------------------------------------------------
(* Strings *)

DigitChars == <<"0", "1", "2", "3", "4", "5", "6", "7", "8", "9">>

IsDigit(ch) == \E i \in 1..10 : DigitChars[i] = ch

DigitVal(ch) == (CHOOSE i \in 1..10 : DigitChars[i] = ch) - 1

\* Number -> decimal string, as a template literal `${n}` or n.toString() gives it
RECURSIVE ToStr(_)
ToStr(n) ==
    IF n < 0 THEN <<"-">> \o ToStr(0 - n)
    ELSE IF n < 10 THEN <<DigitChars[n + 1]>>
    ELSE ToStr(n \div 10) \o <<DigitChars[(n % 10) + 1]>>

\* Length of the leading run of digits of s
RECURSIVE DigitRun(_)
DigitRun(s) ==
    IF s = <<>> \/ ~IsDigit(Head(s)) THEN 0 ELSE 1 + DigitRun(Tail(s))

RECURSIVE DigitsValue(_, _)
DigitsValue(s, acc) ==
    IF s = <<>> THEN acc ELSE DigitsValue(Tail(s), acc * 10 + DigitVal(Head(s)))

RECURSIVE SkipSpaces(_)
SkipSpaces(s) == IF s # <<>> /\ Head(s) = " " THEN SkipSpaces(Tail(s)) ELSE s

\* parseInt(s, 10): leading blanks, an optional sign, then the leading digits.
\* [nan |-> TRUE] when there is no digit to read.
ParseInt(s) ==
    LET t    == SkipSpaces(s)
        neg  == t # <<>> /\ Head(t) = "-"
        u    == IF t # <<>> /\ Head(t) \in {"-", "+"} THEN Tail(t) ELSE t
        k    == DigitRun(u)
        v    == DigitsValue(SubSeq(u, 1, k), 0)
    IN  IF k = 0 THEN [nan |-> TRUE, val |-> 0]
        ELSE [nan |-> FALSE, val |-> IF neg THEN 0 - v ELSE v]

\* s.replace(/\D/g, '')
RECURSIVE OnlyDigits(_)
OnlyDigits(s) ==
    IF s = <<>> THEN <<>>
    ELSE (IF IsDigit(Head(s)) THEN <<Head(s)>> ELSE <<>>) \o OnlyDigits(Tail(s))

EndsWith(s, suffix) ==
    /\ Len(suffix) <= Len(s)
    /\ SubSeq(s, Len(s) - Len(suffix) + 1, Len(s)) = suffix

\* s.split(sep)[0] for a one-character separator
RECURSIVE BeforeChar(_, _)
BeforeChar(s, ch) ==
    IF s = <<>> \/ Head(s) = ch THEN <<>> ELSE <<Head(s)>> \o BeforeChar(Tail(s), ch)

-----------------------------------------------------------------------------
(* Resolution Planner *)

\* `${originalHeight}p`
OriginalResName(h) == ToStr(h) \o <<"p">>

\* `${originalWidth}x${originalHeight}`
SizeString(w, h) == ToStr(w) \o <<"x">> \o ToStr(h)

\* (a, b) => parseInt(a.name) - parseInt(b.name); a NaN result counts as +0
CompareByName(a, b) ==
    LET x == ParseInt(a.name)
        y == ParseInt(b.name)
    IN  IF x.nan \/ y.nan THEN 0 ELSE x.val - y.val

\* Insert x behind every element it does not sort before (stable)
RECURSIVE InsertByName(_, _)
InsertByName(sorted, x) ==
    IF sorted = <<>> THEN <<x>>
    ELSE LET last == sorted[Len(sorted)]
         IN  IF CompareByName(last, x) > 0
             THEN InsertByName(SubSeq(sorted, 1, Len(sorted) - 1), x) \o <<last>>
             ELSE sorted \o <<x>>

HasNumericName(r) == ~ParseInt(r.name).nan

\* Specs whose label is no number are dropped by the sort step
SortNumericOnly(s) == SelectSeq(s, HasNumericName)

\* targetResolutions.sort(...)
RECURSIVE SortByName(_)
SortByName(s) ==
    IF s = <<>> THEN <<>>
    ELSE InsertByName(SortByName(SubSeq(s, 1, Len(s) - 1)), s[Len(s)])

\* Index of the first spec of the list with the given size, 0 when none
FirstWithSize(list, size) ==
    IF \E i \in 1..Len(list) : list[i].size = size
    THEN CHOOSE i \in 1..Len(list) :
            /\ list[i].size = size
            /\ \A j \in 1..(i - 1) : list[j].size # size
    ELSE 0

\* The synthetic spec pushed for the source resolution
OriginalSpec(w, h, bitrate) ==
    [name |-> OriginalResName(h), size |-> SizeString(w, h),
     bitrate |-> bitrate, isOriginal |-> TRUE]

\* existingRes.isOriginal = true
MarkOriginal(spec) == [spec EXCEPT !.isOriginal = TRUE]

\* The user list as it is: nothing pushed, nothing flagged
UserListOnly(w, h, bitrate, user) == [targets |-> user, user |-> user]

\* determineTargetResolutions. The copy [...userDefinedResolutions] is shallow:
\* the specs of the returned list are the caller's spec objects, so flagging
\* existingRes also changes the caller's list. Returns the target list and the
\* caller's list as it stands afterwards.
DetermineTargetResolutions(w, h, bitrate, user) ==
    LET originalAlreadyDefined ==
            \E i \in 1..Len(user) : user[i].name = OriginalResName(h)
        k == FirstWithSize(user, SizeString(w, h))
    IN  IF originalAlreadyDefined
        THEN [targets |-> user, user |-> user]
        ELSE IF k = 0
        THEN [targets |-> SortByName(Append(user, OriginalSpec(w, h, bitrate))),
              user    |-> user]
        ELSE LET flagged == [user EXCEPT ![k] = MarkOriginal(user[k])]
             IN  [targets |-> flagged, user |-> flagged]

-----------------------------------------------------------------------------
(* Rendition Worker: the result processResolution resolves with *)

\* defaultHlsOptions.copyCodecsThresholdHeight
CopyCodecsThresholdHeight == 720

\* parseInt(name.split('p')[0])
NumericHeight(name) == ParseInt(BeforeChar(name, "p"))

\* isOriginal && !isNaN(numericHeight) && numericHeight <= copyCodecsThresholdHeight
ShouldCopyCodecs(spec, threshold) ==
    /\ spec.isOriginal
    /\ ~NumericHeight(spec.name).nan
    /\ NumericHeight(spec.name).val <= threshold

\* The codec options processResolution hands to the encoder
CodecPolicy(spec, threshold) ==
    IF ShouldCopyCodecs(spec, threshold) THEN "copy" ELSE "reencode"

DefaultBandwidth == 500000

ResolutionPlaylistName == <<"p", "l", "a", "y", "l", "i", "s", "t", ".", "m", "3", "u", "8">>

DefaultMasterPlaylistName == <<"m", "a", "s", "t", "e", "r", ".", "m", "3", "u", "8">>

\* parseInt(String(bitrate).replace(/\D/g, ''), 10), then
\* numericBitrate ? numericBitrate * 1000 : 500000  (NaN and 0 are falsy)
Bandwidth(bitrate) ==
    LET numericBitrate == ParseInt(OnlyDigits(bitrate))
    IN  IF numericBitrate.nan \/ numericBitrate.val = 0
        THEN DefaultBandwidth
        ELSE numericBitrate.val * 1000

\* path.join(name, resolutionPlaylistName)
PlaylistRelativePath(name) == name \o <<"/">> \o ResolutionPlaylistName

\* The object passed to resolve() on the encoder's 'end' event
ResolutionResult(spec) ==
    [name |-> spec.name, size |-> spec.size, bitrate |-> spec.bitrate,
     isOriginal |-> spec.isOriginal,
     playlistRelativePath |-> PlaylistRelativePath(spec.name),
     bandwidth |-> Bandwidth(spec.bitrate)]

-----------------------------------------------------------------------------
(* Playlist Builder *)

BaseUrl ==
    <<"h", "t", "t", "p", ":", "/", "/", "l", "o", "c", "a", "l", "h", "o", "s", "t",
      ":", "4", "0", "0", "0", "/", "s", "t", "r", "e", "a", "m", "-", "r", "e", "s",
      "o", "u", "r", "c", "e", "/">>

VideoIdToken  == <<"{", "v", "i", "d", "e", "o", "I", "d", "}">>
BasePathToken == <<"{", "b", "a", "s", "e", "P", "a", "t", "h", "}">>

\* defaultHlsOptions.proxyBaseUrlTemplate
ProxyBaseUrlTemplate == BaseUrl \o BasePathToken \o VideoIdToken \o <<"/">>

StartsWith(s, prefix) ==
    /\ Len(prefix) <= Len(s)
    /\ SubSeq(s, 1, Len(prefix)) = prefix

\* s.replace(/token/g, val) for a literal token
RECURSIVE ReplaceAll(_, _, _)
ReplaceAll(s, token, val) ==
    IF s = <<>> THEN <<>>
    ELSE IF StartsWith(s, token)
    THEN val \o ReplaceAll(SubSeq(s, Len(token) + 1, Len(s)), token, val)
    ELSE <<Head(s)>> \o ReplaceAll(Tail(s), token, val)

RECURSIVE SlashRun(_)
SlashRun(s) == IF s = <<>> \/ Head(s) # "/" THEN 0 ELSE 1 + SlashRun(Tail(s))

\* url.replace(/([^:])\/+/g, '$1/')
RECURSIVE CollapseSlashes(_)
CollapseSlashes(s) ==
    IF Len(s) < 2 THEN s
    ELSE IF Head(s) # ":" /\ s[2] = "/"
    THEN LET n == SlashRun(Tail(s))
         IN  <<Head(s), "/">> \o CollapseSlashes(SubSeq(s, n + 2, Len(s)))
    ELSE <<Head(s)>> \o CollapseSlashes(Tail(s))

IsLetter(ch) ==
    ch \in {"a", "b", "c", "d", "e", "f", "g", "h", "i", "j", "k", "l", "m", "n", "o",
            "p", "q", "r", "s", "t", "u", "v", "w", "x", "y", "z"}

RECURSIVE LetterRun(_)
LetterRun(s) == IF s = <<>> \/ ~IsLetter(Head(s)) THEN 0 ELSE 1 + LetterRun(Tail(s))

\* url.replace(/^([a-zA-Z]+):\/([^/])/, '$1://$2')
FixScheme(s) ==
    LET n == LetterRun(s)
    IN  IF /\ n > 0
           /\ Len(s) >= n + 3
           /\ s[n + 1] = ":"
           /\ s[n + 2] = "/"
           /\ s[n + 3] # "/"
        THEN SubSeq(s, 1, n) \o <<":", "/", "/">> \o SubSeq(s, n + 3, Len(s))
        ELSE s

\* basePath ? (basePath.endsWith('/') ? basePath : `${basePath}/`) : ''
WithTrailingSlash(p) ==
    IF p = <<>> THEN <<>> ELSE IF p[Len(p)] = "/" THEN p ELSE p \o <<"/">>

\* generateProxyBaseUrl(videoId, basePath, proxyBaseUrlTemplate)
GenerateProxyBaseUrl(videoId, basePath, template) ==
    LET bp  == IF basePath = <<>> THEN BaseUrl ELSE basePath
        u1  == ReplaceAll(template, VideoIdToken, videoId)
        u2  == ReplaceAll(u1, BasePathToken, WithTrailingSlash(bp))
    IN  FixScheme(CollapseSlashes(u2))

\* The asset identifiers of this model, `${season_id}/${episode}`
VideoIds == { <<"1", "/", "2">>, <<"1", "/", "?">>, <<"/">>, <<"1", "/">> }

\* generateProxyBaseUrl(videoId) with the default base path and template,
\* tabulated per asset identifier
ProxyBaseUrlOf ==
    [v \in VideoIds |-> GenerateProxyBaseUrl(v, <<>>, ProxyBaseUrlTemplate)]

\* (a, b) => (a.bandwidth || 0) - (b.bandwidth || 0)
CompareByBandwidth(a, b) == a.bandwidth - b.bandwidth

RECURSIVE InsertByBandwidth(_, _)
InsertByBandwidth(sorted, x) ==
    IF sorted = <<>> THEN <<x>>
    ELSE LET last == sorted[Len(sorted)]
         IN  IF CompareByBandwidth(last, x) > 0
             THEN InsertByBandwidth(SubSeq(sorted, 1, Len(sorted) - 1), x) \o <<last>>
             ELSE sorted \o <<x>>

\* The results are used in the order they arrive
Unsorted(s) == s

\* [...successfulResolutions].sort(...)
RECURSIVE SortByBandwidth(_)
SortByBandwidth(s) ==
    IF s = <<>> THEN <<>>
    ELSE InsertByBandwidth(SortByBandwidth(SubSeq(s, 1, Len(s) - 1)), s[Len(s)])

\* new types.Variant({uri, bandwidth, resolution})
Variant(proxyBaseUrl, res) ==
    [uri |-> proxyBaseUrl \o res.playlistRelativePath,
     bandwidth |-> res.bandwidth,
     resolution |-> res.size,
     codecs |-> <<>>,
     audio |-> <<>>,
     subtitles |-> <<>>]

\* The MasterPlaylist object createMasterPlaylist builds: one variant per
\* result, in the sorted order
MasterPlaylistOf(results, videoId) ==
    LET proxyBaseUrl == ProxyBaseUrlOf[videoId]
        sorted       == SortByBandwidth(results)
    IN  [variants |-> [i \in 1..Len(sorted) |-> Variant(proxyBaseUrl, sorted[i])]]

\* masterPlaylistUrl: `${proxyBaseUrl}${options.masterPlaylistName}`
MasterPlaylistUrl(videoId, name) == ProxyBaseUrlOf[videoId] \o name

-----------------------------------------------------------------------------
(* Master playlist text: hls-parser's stringify and parse as the Playlist  *)
(* Builder uses them.  A file is a sequence of lines; a stream-info line   *)
(* carries its URI line with it.                                           *)

NoGroup == <<>>

HeaderLines == << [tag |-> "EXTM3U"], [tag |-> "EXT-X-VERSION", version |-> 3] >>

MediaLine(r) ==
    [tag |-> "EXT-X-MEDIA", type |-> r.type, groupId |-> r.groupId,
     language |-> r.language, name |-> r.name, isDefault |-> r.isDefault,
     autoselect |-> r.autoselect, forced |-> r.forced, uri |-> r.uri]

StreamInfLine(v) ==
    [tag |-> "EXT-X-STREAM-INF", bandwidth |-> v.bandwidth,
     resolution |-> v.resolution, codecs |-> v.codecs,
     audio |-> IF v.audio = <<>> THEN NoGroup ELSE v.audio[1].groupId,
     subtitles |-> IF v.subtitles = <<>> THEN NoGroup ELSE v.subtitles[1].groupId,
     uri |-> v.uri]

Contains(lines, l) == \E i \in 1..Len(lines) : lines[i] = l

\* A media line that is already in the output is not written again
RECURSIVE PushMedia(_, _)
PushMedia(lines, rs) ==
    IF rs = <<>> THEN lines
    ELSE LET l == MediaLine(Head(rs))
         IN  PushMedia(IF Contains(lines, l) THEN lines ELSE Append(lines, l), Tail(rs))

RECURSIVE PushVariants(_, _)
PushVariants(lines, vs) ==
    IF vs = <<>> THEN lines
    ELSE LET v == Head(vs)
             withMedia == PushMedia(PushMedia(lines, v.audio), v.subtitles)
         IN  PushVariants(Append(withMedia, StreamInfLine(v)), Tail(vs))

\* stringify(masterPlaylist)
Stringify(playlist) == PushVariants(HeaderLines, playlist.variants)

IsStreamInf(l) == l.tag = "EXT-X-STREAM-INF"

IsMediaOf(l, type, group) ==
    /\ l.tag = "EXT-X-MEDIA"
    /\ l.type = type
    /\ l.groupId = group

RenditionOf(l) ==
    [type |-> l.type, groupId |-> l.groupId, language |-> l.language,
     name |-> l.name, isDefault |-> l.isDefault, autoselect |-> l.autoselect,
     forced |-> l.forced, uri |-> l.uri]

RECURSIVE GroupRenditions(_, _, _)
GroupRenditions(lines, type, group) ==
    IF lines = <<>> \/ group = NoGroup THEN <<>>
    ELSE (IF IsMediaOf(Head(lines), type, group)
          THEN <<RenditionOf(Head(lines))>> ELSE <<>>)
         \o GroupRenditions(Tail(lines), type, group)

RECURSIVE ParseVariants(_, _)
ParseVariants(rest, all) ==
    IF rest = <<>> THEN <<>>
    ELSE LET l == Head(rest)
         IN  (IF IsStreamInf(l)
              THEN << [uri |-> l.uri, bandwidth |-> l.bandwidth,
                       resolution |-> l.resolution, codecs |-> l.codecs,
                       audio |-> GroupRenditions(all, "AUDIO", l.audio),
                       subtitles |-> GroupRenditions(all, "SUBTITLES", l.subtitles)] >>
              ELSE <<>>)
             \o ParseVariants(Tail(rest), all)

\* parse(content) yields a MasterPlaylist when the text holds a tag of the
\* master playlist category, a MediaPlaylist otherwise
IsMasterText(lines) ==
    \E i \in 1..Len(lines) : lines[i].tag \in {"EXT-X-STREAM-INF", "EXT-X-MEDIA"}

Parse(lines) ==
    [isMasterPlaylist |-> IsMasterText(lines), variants |-> ParseVariants(lines, lines)]

-----------------------------------------------------------------------------
(* Input validation *)

UpperChars == <<"A", "B", "C", "D", "E", "F", "G", "H", "I", "J", "K", "L", "M",
                "N", "O", "P", "Q", "R", "S", "T", "U", "V", "W", "X", "Y", "Z">>
LowerChars == <<"a", "b", "c", "d", "e", "f", "g", "h", "i", "j", "k", "l", "m",
                "n", "o", "p", "q", "r", "s", "t", "u", "v", "w", "x", "y", "z">>

IsUpper(ch) == \E i \in 1..26 : UpperChars[i] = ch

LowerChar(ch) ==
    IF IsUpper(ch) THEN LowerChars[CHOOSE i \in 1..26 : UpperChars[i] = ch] ELSE ch

\* s.toLowerCase()
ToLowerCase(s) == [i \in 1..Len(s) |-> LowerChar(s[i])]

ValidExtensions ==
    { <<".", "m", "p", "4">>, <<".", "m", "o", "v">>, <<".", "a", "v", "i">>,
      <<".", "m", "k", "v">>, <<".", "w", "e", "b", "m">>, <<".", "f", "l", "v">> }

\* validateVideoFilePath: TRUE when it returns, FALSE when it throws
ValidateVideoFilePath(filePath) ==
    /\ filePath # <<>>
    /\ \E ext \in ValidExtensions : EndsWith(ToLowerCase(filePath), ext)

\* validateVideoRelativePath: /^[a-zA-Z0-9_\/-]+$/
ValidateVideoRelativePath(videoId) ==
    /\ videoId # <<>>
    /\ \A i \in 1..Len(videoId) :
          \/ IsLetter(videoId[i])
          \/ IsUpper(videoId[i])
          \/ IsDigit(videoId[i])
          \/ videoId[i] \in {"_", "/", "-"}

\* `${data.season_id}/${data.episode}`
VideoRelativePath(data) == data.season_id \o <<"/">> \o data.episode

-----------------------------------------------------------------------------
(* Task Tracker: TaskQueue *)

Put(m, k, v) == [x \in (DOMAIN m) \cup {k} |-> IF x = k THEN v ELSE m[x]]

PendingStatus == "pending"

\* addTask: the id is the clock reading, the record replaces whatever is
\* stored under that id
AddTask(tk, now, data) ==
    Put(tk, ToStr(now), [id |-> ToStr(now), status |-> PendingStatus, data |-> data])

\* updateTaskStatus: nothing happens for an id the map does not hold
UpdateTaskStatus(tk, id, status) ==
    IF id \in DOMAIN tk THEN [tk EXCEPT ![id].status = status] ELSE tk

\* getTask(id): the status of the task, "null" when the map does not hold it
GetTaskStatus(tk, id) == IF id \in DOMAIN tk THEN tk[id].status ELSE "null"

\* The statuses the orchestrator sets through task-utils
InProgressStatus == "in_progress"
ProcessingStatus == "processing"
CompleteTaskStatus == "completed"
FailTaskAsCompleted == "completed"
FailTaskStatus == "failed"

-----------------------------------------------------------------------------
(* Bounds and input sets *)

MaxClock == 2

Convs == {"c1", "c2"}

\* What the probe can report: width, height, bitrate string
Sources ==
    { [w |-> 854,  h |-> 480, b |-> <<"1", "4", "0", "0", "k">>],
      [w |-> 1280, h |-> 720, b |-> <<"2", "8", "0", "0", "k">>] }

InputPaths == { <<"v", ".", "m", "p", "4">>, <<"v", ".", "t", "x", "t">> }

UploadData ==
    { [season_id |-> <<"1">>, episode |-> <<"2">>],
      [season_id |-> <<"1">>, episode |-> <<"?">>] }

SpecSd == [name |-> <<"s", "d">>, size |-> <<"8", "5", "4", "x", "4", "8", "0">>,
           bitrate |-> <<"8", "0", "0", "k">>, isOriginal |-> FALSE]
SpecHd == [name |-> <<"h", "d">>, size |-> <<"1", "2", "8", "0", "x", "7", "2", "0">>,
           bitrate |-> <<"2", "5", "0", "0", "k">>, isOriginal |-> FALSE]
Spec480p == [name |-> <<"4", "8", "0", "p">>, size |-> <<"8", "5", "4", "x", "4", "8", "0">>,
             bitrate |-> <<"1", "4", "0", "0", "k">>, isOriginal |-> FALSE]

\* userOptions.resolutions: absent (the default []), a list, or undefined
ConfiguredResolutions ==
    { [defined |-> TRUE,  list |-> <<>>],
      [defined |-> TRUE,  list |-> <<SpecSd, SpecHd>>],
      [defined |-> FALSE, list |-> <<>>] }

MasterNames == { DefaultMasterPlaylistName, <<"i", "n", "d", "e", "x", ".", "m", "3", "u", "8">> }

NoFile == [exists |-> FALSE, content |-> <<>>]

OldTaskId == <<"0">>

\* ./tasks.json as an earlier run may have left it
InitialFiles ==
    { NoFile,
      [exists |-> TRUE,
       content |-> Put(<<>>, OldTaskId,
                       [id |-> OldTaskId, status |-> "completed", data |-> <<>>])] }

-----------------------------------------------------------------------------
(* State *)

NoTask == <<>>

IdleConv ==
    [pc |-> "idle", path |-> <<>>, videoId |-> <<>>, taskId |-> NoTask,
     targets |-> <<>>, work |-> <<>>, calls |-> <<>>,
     error |-> "none", message |-> <<>>, pending |-> <<>>, master |-> <<>>,
     url |-> <<>>, resultStatus |-> "none"]

PlannerIdle  == /\ pin = <<>> /\ pout = <<>>
PlaylistIdle == /\ mres = <<>> /\ mfile = <<>> /\ mtracks = <<>> /\ mstep = "off"
NoCall == [fn |-> "none", done |-> FALSE]
CallIdle == /\ call = NoCall /\ ret = <<>>
\* new TaskQueue('./tasks.json'): an empty map, loadTasks started
TrackerInit ==
    /\ clock = 1
    /\ tasks = <<>>
    /\ writes = {}
    /\ load = [pc |-> "exists", buf |-> <<>>]

\* A first run: there is no ./tasks.json yet
Init ==
    /\ TrackerInit
    /\ disk = {}
    /\ file = NoFile
    /\ resolutions \in ConfiguredResolutions
    /\ masterName \in MasterNames
    /\ conv = [c \in Convs |-> IdleConv]
    /\ PlannerIdle
    /\ PlaylistIdle
    /\ CallIdle

-----------------------------------------------------------------------------
(* Clock and task store file *)

Tick ==
    /\ clock < MaxClock
    /\ clock' = clock + 1
    /\ UNCHANGED <<tasks, file, writes, load, orchVars, plannerVars, playlistVars, callVars, disk>>

\* loadTasks: await file.exists()
LoadExists ==
    /\ load.pc = "exists"
    /\ load' = [load EXCEPT !.pc = IF file.exists THEN "text" ELSE "done"]
    /\ UNCHANGED <<clock, tasks, file, writes, orchVars, plannerVars, playlistVars, callVars, disk>>

\* loadTasks: await file.text()
LoadText ==
    /\ load.pc = "text"
    /\ load' = [pc |-> "parse", buf |-> file.content]
    /\ UNCHANGED <<clock, tasks, file, writes, orchVars, plannerVars, playlistVars, callVars, disk>>

\* loadTasks: this.tasks = JSON.parse(content)
LoadAssign ==
    /\ load.pc = "parse"
    /\ tasks' = load.buf
    /\ load' = [pc |-> "done", buf |-> <<>>]
    /\ UNCHANGED <<clock, file, writes, orchVars, plannerVars, playlistVars, callVars, disk>>

\* saveTasks: a Bun.write in flight lands
WriteDone ==
    /\ \E w \in writes :
          /\ file' = [exists |-> TRUE, content |-> w]
          /\ writes' = writes \ {w}
    /\ UNCHANGED <<clock, tasks, load, orchVars, plannerVars, playlistVars, callVars, disk>>

\* The error of the task store reaches the conversions in flight
RethrowStoreError(cv) ==
    [c \in DOMAIN cv |->
        IF cv[c].pc \in {"idle", "returned", "thrown"} THEN cv[c]
        ELSE [cv[c] EXCEPT !.pc = "thrown", !.error = "store"]]

\* The catch of saveTasks and of loadTasks: console.error, nothing else
CatchStoreError(cv) == cv

\* saveTasks: a Bun.write in flight fails; the error is logged
WriteFail ==
    /\ \E w \in writes : writes' = writes \ {w}
    /\ conv' = CatchStoreError(conv)
    /\ UNCHANGED <<clock, tasks, file, load, resolutions, masterName,
                   plannerVars, playlistVars, callVars, disk>>

\* loadTasks: file.exists() or file.text() rejects, or JSON.parse throws; the
\* error is logged and the map stays as it is
LoadFail ==
    /\ load.pc \in {"exists", "text", "parse"}
    /\ load' = [pc |-> "done", buf |-> <<>>]
    /\ conv' = CatchStoreError(conv)
    /\ UNCHANGED <<clock, tasks, file, writes, resolutions, masterName,
                   plannerVars, playlistVars, callVars, disk>>

\* createConversionTask -> addTask, with its saveTasks
TrackerAdd(data) ==
    /\ tasks' = AddTask(tasks, clock, data)
    /\ writes' = writes \cup {tasks'}

\* updateTaskStatus, with its saveTasks when the task is held
TrackerUpdate(id, status) ==
    /\ tasks' = UpdateTaskStatus(tasks, id, status)
    /\ writes' = IF id \in DOMAIN tasks THEN writes \cup {tasks'} ELSE writes

-----------------------------------------------------------------------------
(* Conversion Orchestrator: convertToHls *)

Others == <<plannerVars, playlistVars, callVars>>

\* path.join(PROCESSED_DIR, videoId)
OutputDir(videoId) == [kind |-> "dir", videoId |-> videoId, name |-> <<>>]

\* resOutputDir: path.join(outputDir, name)
RenditionDir(videoId, name) == [kind |-> "dir", videoId |-> videoId, name |-> name]

\* playlistPath: path.join(resOutputDir, resolutionPlaylistName), with the
\* segments next to it
RenditionOutput(videoId, name) == [kind |-> "rendition", videoId |-> videoId, name |-> name]

\* masterPlaylistPath: path.join(outputDir, options.masterPlaylistName)
MasterFile(videoId, name) == [kind |-> "master", videoId |-> videoId, name |-> name]

\* The outputs of the failed conversion are removed
Rollback(d, videoId) == {f \in d : f.videoId # videoId}

\* The catch of processHlsConversion touches no file
AfterFailure(d, videoId) == d

Thrown(r, kind) == [r EXCEPT !.pc = "thrown", !.error = kind]

\* prepareHlsConversion up to its first await: both validators, the merge of
\* the options, then createOutputDirectory is awaited
StartWith(c, paths, uploads) ==
    /\ conv[c].pc = "idle"
    /\ \E path \in paths, data \in uploads :
          LET videoId == VideoRelativePath(data)
              r == [conv[c] EXCEPT !.path = path, !.videoId = videoId]
          IN  conv' = [conv EXCEPT ![c] =
                  IF ValidateVideoFilePath(path) /\ ValidateVideoRelativePath(videoId)
                  THEN [r EXCEPT !.pc = "mkdir"]
                  ELSE Thrown(r, "validation")]
    /\ UNCHANGED <<trackerVars, resolutions, masterName, Others, disk>>

Start(c) == StartWith(c, InputPaths, UploadData)

\* createOutputDirectory resolves; getVideoMetadata is awaited
MkdirDone(c) ==
    /\ conv[c].pc = "mkdir"
    /\ conv' = [conv EXCEPT ![c].pc = "probing"]
    /\ disk' = disk \cup {OutputDir(conv[c].videoId)}
    /\ UNCHANGED <<trackerVars, resolutions, masterName, Others>>

MkdirFail(c) ==
    /\ conv[c].pc = "mkdir"
    /\ conv' = [conv EXCEPT ![c] = Thrown(@, "mkdir")]
    /\ UNCHANGED <<trackerVars, resolutions, masterName, Others, disk>>

ProbeFail(c) ==
    /\ conv[c].pc = "probing"
    /\ conv' = [conv EXCEPT ![c] = Thrown(@, "probe")]
    /\ UNCHANGED <<trackerVars, resolutions, masterName, Others, disk>>

\* The task data of prepareHlsConversion
TaskData(c, src) ==
    [videoId |-> conv[c].videoId, originalWidth |-> src.w,
     originalHeight |-> src.h, bitrate |-> src.b,
     resolutions |-> <<OriginalSpec(src.w, src.h, src.b)>>]

\* getVideoMetadata resolves: the task is created, then the targets are
\* planned.  Spreading a resolutions option that is not a list throws, after
\* the task was created and outside processHlsConversion's try.
ProbeOk(c) ==
    /\ conv[c].pc = "probing"
    /\ \E src \in Sources :
          LET plan == DetermineTargetResolutions(src.w, src.h, src.b, resolutions.list)
              r == [conv[c] EXCEPT !.taskId = ToStr(clock),
                                   !.calls = Append(@, PendingStatus)]
          IN  /\ TrackerAdd(TaskData(c, src))
              /\ IF resolutions.defined
                 THEN /\ conv' = [conv EXCEPT ![c] =
                             [r EXCEPT !.pc = "prepared", !.targets = plan.targets]]
                      /\ resolutions' = [resolutions EXCEPT !.list = plan.user]
                 ELSE /\ conv' = [conv EXCEPT ![c] = Thrown(r, "plan")]
                      /\ UNCHANGED resolutions
    /\ UNCHANGED <<clock, file, load, masterName, Others, disk>>

\* processHlsConversion: updateTaskStatus('processing'), then every
\* processResolution promise is created; each runs up to its fs.access
ProcessStart(c) ==
    /\ conv[c].pc = "prepared"
    /\ TrackerUpdate(conv[c].taskId, ProcessingStatus)
    /\ conv' = [conv EXCEPT ![c] =
            [@ EXCEPT !.pc = "encoding",
                      !.calls = Append(@, ProcessingStatus),
                      !.work = [i \in 1..Len(conv[c].targets) |-> "dir"]]]
    /\ UNCHANGED <<clock, file, load, resolutions, masterName, Others, disk>>

WorkerStep(c, i, from, to) ==
    /\ conv[c].pc = "encoding"
    /\ i \in 1..Len(conv[c].work)
    /\ conv[c].work[i] = from
    /\ conv' = [conv EXCEPT ![c].work[i] = to]
    /\ UNCHANGED <<trackerVars, resolutions, masterName, Others>>

\* The encoder is set up with no look at the rendition directory
SkipDirectory(d, videoId, name) == d

\* fs.access(resOutputDir) resolves, or fs.mkdir(resOutputDir) after ENOENT
EnsureDirectory(d, videoId, name) == d \cup {RenditionDir(videoId, name)}

\* processResolution: the rendition directory exists or was created; ffmpeg runs
WorkerDirOk(c, i) ==
    /\ WorkerStep(c, i, "dir", "enc")
    /\ disk' = EnsureDirectory(disk, conv[c].videoId, conv[c].targets[i].name)

\* processResolution: fs.access or fs.mkdir fails; reject(error)
WorkerDirFail(c, i) ==
    /\ WorkerStep(c, i, "dir", "failed")
    /\ UNCHANGED disk

\* processResolution: ffmpeg 'end'; resolve(result)
WorkerEnd(c, i) ==
    /\ WorkerStep(c, i, "enc", "ok")
    /\ disk' = disk \cup {RenditionOutput(conv[c].videoId, conv[c].targets[i].name)}

\* processResolution: ffmpeg 'error'; reject(new Error(...))
WorkerError(c, i) ==
    /\ WorkerStep(c, i, "enc", "failed")
    /\ UNCHANGED disk

Settled(st) == st \in {"ok", "failed"}

\* Promise.all in place of Promise.allSettled: the first rejection ends the wait
FirstRejectionOrAll(work) ==
    \/ \E i \in 1..Len(work) : work[i] = "failed"
    \/ \A i \in 1..Len(work) : Settled(work[i])

\* Promise.allSettled(processingPromises) resolves
AllSettled(work) == \A i \in 1..Len(work) : Settled(work[i])

\* results.length in place of errors.length
SettledCount(work) == Len(work)

\* The rejected promises are not counted
IgnoreFailures(work) == 0

\* errors.length
FailedCount(work) == Cardinality({i \in 1..Len(work) : work[i] = "failed"})

\* successfulResults, in the order of the targets
RECURSIVE SuccessfulResults(_, _)
SuccessfulResults(targets, work) ==
    IF targets = <<>> THEN <<>>
    ELSE (IF Head(work) = "ok" THEN <<ResolutionResult(Head(targets))>> ELSE <<>>)
         \o SuccessfulResults(Tail(targets), Tail(work))

\* `HLS conversion failed for ${errors.length} resolution(s).`
AggregateMessage(n) ==
    <<"HLS conversion failed for ">> \o ToStr(n) \o <<" resolution(s).">>

EmptyMessage == <<"HLS conversion resulted in no successful resolutions.">>

WriteFileMessage == <<"fs.writeFile failed">>

\* The catch of processHlsConversion: failTask, then rethrow
Fail(c, kind, message) ==
    /\ TrackerUpdate(conv[c].taskId, FailTaskStatus)
    /\ disk' = AfterFailure(disk, conv[c].videoId)
    /\ conv' = [conv EXCEPT ![c] =
            [Thrown(@, kind) EXCEPT !.calls = Append(@, FailTaskStatus),
                                    !.message = message]]

\* The continuation after Promise.allSettled: the aggregate error, the empty
\* check, or createMasterPlaylist up to its fs.writeFile
Join(c) ==
    /\ conv[c].pc = "encoding"
    /\ AllSettled(conv[c].work)
    /\ LET ok == SuccessfulResults(conv[c].targets, conv[c].work)
       IN  IF FailedCount(conv[c].work) > 0
           THEN Fail(c, "aggregate", AggregateMessage(FailedCount(conv[c].work)))
           ELSE IF Len(ok) = 0
           THEN Fail(c, "empty", EmptyMessage)
           ELSE /\ conv' = [conv EXCEPT ![c] =
                       [@ EXCEPT !.pc = "playlisting",
                                 !.pending = Stringify(MasterPlaylistOf(ok, conv[c].videoId))]]
                /\ UNCHANGED <<tasks, writes, disk>>
    /\ UNCHANGED <<clock, file, load, resolutions, masterName, Others>>

\* fs.writeFile of the master playlist resolves: completeTask, return
MasterWritten(c) ==
    /\ conv[c].pc = "playlisting"
    /\ TrackerUpdate(conv[c].taskId, CompleteTaskStatus)
    /\ conv' = [conv EXCEPT ![c] =
            [@ EXCEPT !.pc = "returned",
                      !.calls = Append(@, CompleteTaskStatus),
                      !.master = conv[c].pending,
                      !.url = MasterPlaylistUrl(conv[c].videoId, masterName),
                      !.resultStatus = GetTaskStatus(tasks', conv[c].taskId)]]
    /\ disk' = disk \cup {MasterFile(conv[c].videoId, masterName)}
    /\ UNCHANGED <<clock, file, load, resolutions, masterName, Others>>

\* fs.writeFile of the master playlist rejects
MasterWriteFail(c) ==
    /\ conv[c].pc = "playlisting"
    /\ Fail(c, "playlist", WriteFileMessage)
    /\ UNCHANGED <<clock, file, load, resolutions, masterName, Others>>

\* The orchestrator over the in-memory task map.  The file is absent, so
\* loadTasks ends at its existence check; the landing of the writes that
\* saveTasks starts touches the file alone and is left to the store steps
\* (LoadText, LoadAssign, WriteDone, WriteFail).
Next ==
    \/ Tick
    \/ LoadExists
    \/ \E c \in Convs : Start(c)
    \/ \E c \in Convs : MkdirDone(c)
    \/ \E c \in Convs : MkdirFail(c)
    \/ \E c \in Convs : ProbeFail(c)
    \/ \E c \in Convs : ProbeOk(c)
    \/ \E c \in Convs : ProcessStart(c)
    \/ \E c \in Convs, i \in 1..3 : WorkerDirOk(c, i)
    \/ \E c \in Convs, i \in 1..3 : WorkerDirFail(c, i)
    \/ \E c \in Convs, i \in 1..3 : WorkerEnd(c, i)
    \/ \E c \in Convs, i \in 1..3 : WorkerError(c, i)
    \/ \E c \in Convs : Join(c)
    \/ \E c \in Convs : MasterWritten(c)
    \/ \E c \in Convs : MasterWriteFail(c)

Spec == Init /\ [][Next]_vars

\* One conversion together with the task store file: ./tasks.json may exist
\* from an earlier run, loadTasks may still be running when the conversion
\* starts, and every flush lands or fails on its own
StoreConvs == {"c1"}

InitStore ==
    /\ TrackerInit
    /\ disk = {}
    /\ file \in InitialFiles
    /\ resolutions \in ConfiguredResolutions
    /\ masterName = DefaultMasterPlaylistName
    /\ conv = [c \in Convs |-> IdleConv]
    /\ PlannerIdle
    /\ PlaylistIdle
    /\ CallIdle

NextStore ==
    \/ Tick
    \/ LoadExists
    \/ LoadText
    \/ LoadAssign
    \/ LoadFail
    \/ WriteDone
    \/ WriteFail
    \/ \E c \in StoreConvs : Start(c)
    \/ \E c \in StoreConvs : MkdirDone(c)
    \/ \E c \in StoreConvs : MkdirFail(c)
    \/ \E c \in StoreConvs : ProbeFail(c)
    \/ \E c \in StoreConvs : ProbeOk(c)
    \/ \E c \in StoreConvs : ProcessStart(c)
    \/ \E c \in StoreConvs, i \in 1..3 : WorkerDirOk(c, i)
    \/ \E c \in StoreConvs, i \in 1..3 : WorkerDirFail(c, i)
    \/ \E c \in StoreConvs, i \in 1..3 : WorkerEnd(c, i)
    \/ \E c \in StoreConvs, i \in 1..3 : WorkerError(c, i)
    \/ \E c \in StoreConvs : Join(c)
    \/ \E c \in StoreConvs : MasterWritten(c)
    \/ \E c \in StoreConvs : MasterWriteFail(c)

SpecStore == InitStore /\ [][NextStore]_vars

\* One conversion over every kind of input: paths with and without an
\* allowed extension, in either case, and upload data with empty parts
IntakePaths ==
    InputPaths \cup { <<"V", ".", "M", "P", "4">>, <<"m", "p", "4">>, <<>> }

IntakeData ==
    UploadData \cup { [season_id |-> <<>>, episode |-> <<>>],
                      [season_id |-> <<"1">>, episode |-> <<>>] }

StartAny(c) == StartWith(c, IntakePaths, IntakeData)

NextIntake ==
    \/ Tick
    \/ LoadExists
    \/ \E c \in StoreConvs : StartAny(c)
    \/ \E c \in StoreConvs : MkdirDone(c)
    \/ \E c \in StoreConvs : MkdirFail(c)
    \/ \E c \in StoreConvs : ProbeFail(c)
    \/ \E c \in StoreConvs : ProbeOk(c)
    \/ \E c \in StoreConvs : ProcessStart(c)
    \/ \E c \in StoreConvs, i \in 1..3 : WorkerDirOk(c, i)
    \/ \E c \in StoreConvs, i \in 1..3 : WorkerDirFail(c, i)
    \/ \E c \in StoreConvs, i \in 1..3 : WorkerEnd(c, i)
    \/ \E c \in StoreConvs, i \in 1..3 : WorkerError(c, i)
    \/ \E c \in StoreConvs : Join(c)
    \/ \E c \in StoreConvs : MasterWritten(c)
    \/ \E c \in StoreConvs : MasterWriteFail(c)

SpecIntake == Init /\ [][NextIntake]_vars

-----------------------------------------------------------------------------
(* Claims about the orchestrator and the task map *)

CallSet(c) == {conv[c].calls[i] : i \in 1..Len(conv[c].calls)}

FailedWorkers(c) == {i \in 1..Len(conv[c].work) : conv[c].work[i] = "failed"}

UnsettledWorkers(c) == {i \in 1..Len(conv[c].work) : ~Settled(conv[c].work[i])}

LegalMove(a, b) ==
    \/ a = b
    \/ a = "pending" /\ b = "processing"
    \/ a = "processing" /\ b \in {"completed", "failed"}

\* C1: the status of every task the map holds only moves
\* pending -> processing -> (completed | failed); a completed or failed task
\* never changes status again.
C1_StatusMonotonic ==
    [][\A id \in (DOMAIN tasks) \cap (DOMAIN tasks') :
          LegalMove(tasks[id].status, tasks'[id].status)]_vars

\* C2: while a launched worker of a conversion is unsettled the orchestrator
\* has decided nothing: it still waits, it has set neither failed nor
\* completed, it has thrown nothing and prepared or written no master
\* playlist, whatever the other workers did.
C2_NoDecisionBeforeAllSettled ==
    \A c \in Convs :
        UnsettledWorkers(c) # {} =>
            /\ conv[c].pc = "encoding"
            /\ conv[c].calls = <<"pending", "processing">>
            /\ conv[c].error = "none"
            /\ conv[c].pending = <<>>
            /\ conv[c].master = <<>>

\* A worker has failed while a sibling is still running
C2_Witness ==
    \E c \in Convs : FailedWorkers(c) # {} /\ UnsettledWorkers(c) # {}

\* C3: once the workers have settled with k >= 1 failures and the
\* orchestrator has gone on, it has called failTask last and thrown the one
\* aggregate error, whose message carries k.
C3_AggregateFailure ==
    \A c \in Convs :
        LET k == Cardinality(FailedWorkers(c))
        IN  (k >= 1 /\ conv[c].pc # "encoding") =>
                /\ UnsettledWorkers(c) = {}
                /\ conv[c].pc = "thrown"
                /\ conv[c].error = "aggregate"
                /\ conv[c].calls = <<"pending", "processing", "failed">>
                /\ conv[c].message =
                       <<"HLS conversion failed for ">> \o ToStr(k) \o <<" resolution(s).">>

\* One failure out of two renditions has been reported
C3_Witness ==
    \E c \in Convs :
        /\ conv[c].error = "aggregate"
        /\ Len(conv[c].work) = 2
        /\ Cardinality(FailedWorkers(c)) = 1

\* C4: an invocation has at most one outcome: it never sets both completed
\* and failed; a returned invocation set completed, not failed, and the
\* result it returns does not carry status failed; a thrown invocation did
\* not set completed.
C4_OneOutcome ==
    \A c \in Convs :
        /\ ~({"completed", "failed"} \subseteq CallSet(c))
        /\ conv[c].pc = "returned" =>
              /\ "completed" \in CallSet(c)
              /\ conv[c].resultStatus # "failed"
              /\ conv[c].error = "none"
        /\ conv[c].pc = "thrown" => "completed" \notin CallSet(c)
        /\ "completed" \in CallSet(c) => conv[c].pc = "returned"
        /\ "failed" \in CallSet(c) => conv[c].pc = "thrown"

\* One invocation has returned and another has failed its task and thrown
C4_Witness ==
    \E c, d \in Convs :
        /\ conv[c].pc = "returned"
        /\ conv[d].pc = "thrown"
        /\ "failed" \in CallSet(d)

\* C5: an invocation that created its task and has returned or thrown has
\* left the task completed or failed.
C5_TaskEndsTerminal ==
    \A c \in Convs :
        (conv[c].taskId # NoTask /\ conv[c].pc \in {"returned", "thrown"}) =>
            GetTaskStatus(tasks, conv[c].taskId) \in {"completed", "failed"}

\* C6 as stated: a returned conversion has set pending, processing, completed
\* in that order, and its masterPlaylistUrl ends in master.m3u8.
C6_AsStated ==
    \A c \in Convs :
        conv[c].pc = "returned" =>
            /\ conv[c].calls = <<"pending", "processing", "completed">>
            /\ EndsWith(conv[c].url, DefaultMasterPlaylistName)

\* C6, with the configured playlist name: the statuses a conversion sets on its task are pending once
\* the probe is back, processing after planning and before any worker is
\* launched, completed after the master playlist is written; a returned
\* conversion has set exactly these three, all its workers succeeded, and its
\* masterPlaylistUrl ends in the configured master playlist name.
C6_StatusSequence ==
    \A c \in Convs :
        /\ conv[c].pc \in {"idle", "mkdir", "probing"} => conv[c].calls = <<>>
        /\ conv[c].pc = "prepared" =>
              conv[c].calls = <<"pending">> /\ conv[c].work = <<>>
        /\ conv[c].work # <<>> =>
              SubSeq(conv[c].calls, 1, 2) = <<"pending", "processing">>
        /\ "completed" \in CallSet(c) => conv[c].master # <<>>
        /\ conv[c].pc = "returned" =>
              /\ conv[c].calls = <<"pending", "processing", "completed">>
              /\ FailedWorkers(c) = {} /\ UnsettledWorkers(c) = {}
              /\ EndsWith(conv[c].url, masterName)
              /\ Len(conv[c].url) > Len(masterName)

\* A conversion with two renditions has returned
C6_Witness ==
    \E c \in Convs : conv[c].pc = "returned" /\ Len(conv[c].work) = 2

IsOriginalCount(list) == Cardinality({i \in 1..Len(list) : list[i].isOriginal})

\* C8: the target list planned for a conversion holds at most one spec
\* flagged isOriginal.
C8_AtMostOneOriginal ==
    \A c \in Convs : IsOriginalCount(conv[c].targets) <= 1

-----------------------------------------------------------------------------
(* The Resolution Planner on its own *)

MaxUserLen == 3

PlannerNames ==
    { <<"4", "8", "0", "p">>, <<"7", "2", "0", "p">>, <<"s", "d">>, <<"h", "d">> }

PlannerSizes ==
    { <<"8", "5", "4", "x", "4", "8", "0">>,
      <<"1", "2", "8", "0", "x", "7", "2", "0">>,
      <<"6", "4", "0", "x", "3", "6", "0">>,
      <<"9", "6", "0", "x", "5", "4", "0">> }

PlannerSpecs ==
    { [name |-> n, size |-> z, bitrate |-> <<"8", "0", "0", "k">>, isOriginal |-> FALSE] :
        n \in PlannerNames, z \in PlannerSizes }

SeqsUpTo(S, n) == UNION { [1..k -> S] : k \in 0..n }

\* User-defined rendition lists: unflagged specs with different labels and
\* different sizes
UserLists ==
    { l \in SeqsUpTo(PlannerSpecs, MaxUserLen) :
        \A i, j \in 1..Len(l) :
            i # j => (l[i].name # l[j].name /\ l[i].size # l[j].size) }

InitPlanner ==
    /\ TrackerInit
    /\ disk = {}
    /\ file = NoFile
    /\ resolutions = [defined |-> TRUE, list |-> <<>>]
    /\ masterName = DefaultMasterPlaylistName
    /\ conv = [c \in Convs |-> IdleConv]
    /\ PlaylistIdle
    /\ CallIdle
    /\ pin \in { [src |-> src, user |-> u] : src \in Sources, u \in UserLists }
    /\ pout = [done |-> FALSE, targets |-> <<>>, user |-> <<>>,
               twice |-> FALSE, again |-> <<>>]

\* One call of determineTargetResolutions
Plan ==
    /\ ~pout.done
    /\ LET r == DetermineTargetResolutions(pin.src.w, pin.src.h, pin.src.b, pin.user)
       IN  pout' = [pout EXCEPT !.done = TRUE, !.targets = r.targets, !.user = r.user]
    /\ UNCHANGED <<trackerVars, orchVars, pin, playlistVars, callVars, disk>>

\* A second call of determineTargetResolutions with the same arguments
PlanAgain ==
    /\ pout.done
    /\ ~pout.twice
    /\ LET r == DetermineTargetResolutions(pin.src.w, pin.src.h, pin.src.b, pin.user)
       IN  pout' = [pout EXCEPT !.twice = TRUE, !.again = r.targets]
    /\ UNCHANGED <<trackerVars, orchVars, pin, playlistVars, callVars, disk>>

NextPlanner ==
    \/ Plan
    \/ PlanAgain

SpecPlanner == InitPlanner /\ [][NextPlanner]_vars

\* C7: the Planner's output holds exactly one spec flagged isOriginal and no
\* two of its specs have the same size.
C7_ExactlyOneOriginal ==
    pout.done =>
        /\ IsOriginalCount(pout.targets) = 1
        /\ \A i, j \in 1..Len(pout.targets) :
              i # j => pout.targets[i].size # pout.targets[j].size

-----------------------------------------------------------------------------
(* The Playlist Builder on its own *)

MaxResults == 3

AUDIO_GROUP_ID == <<"aac-audio">>

SUBTITLE_GROUP_ID == <<"subs">>

SpecAbc == [name |-> <<"3", "6", "0", "p">>, size |-> <<"6", "4", "0", "x", "3", "6", "0">>,
            bitrate |-> <<"a", "b", "c">>, isOriginal |-> FALSE]

ResultSpecs == {SpecSd, Spec480p, SpecHd, SpecAbc}

PlaylistVideoId == <<"1", "/", "2">>

AudioTrackInfos ==
    { [lang |-> <<"en">>, name |-> <<"English">>,
       relativePath |-> <<"audio_en/audio.m3u8">>, isDefault |-> TRUE,
       autoselect |-> TRUE, isForced |-> FALSE],
      [lang |-> <<"es">>, name |-> <<"Spanish">>,
       relativePath |-> <<"audio_es/audio.m3u8">>, isDefault |-> FALSE,
       autoselect |-> TRUE, isForced |-> FALSE] }

SubtitleTrackInfos ==
    { [lang |-> <<"en">>, name |-> <<"English">>,
       relativePath |-> <<"subs_en/subs.m3u8">>, isDefault |-> FALSE,
       autoselect |-> TRUE, isForced |-> FALSE] }

AudioEn == CHOOSE t \in AudioTrackInfos : t.isDefault
AudioEs == CHOOSE t \in AudioTrackInfos : ~t.isDefault
SubsEn  == CHOOSE t \in SubtitleTrackInfos : TRUE

\* The track lists handed to addMediaToMasterPlaylist
AudioTrackLists == { <<>>, <<AudioEn>>, <<AudioEs, AudioEn>>, <<AudioEn, AudioEn>> }
SubtitleTrackLists == { <<>>, <<SubsEn>> }

\* new types.Rendition({...}) for one track
Rendition(type, group, track, proxyBaseUrl) ==
    [type |-> type, groupId |-> group, language |-> track.lang, name |-> track.name,
     isDefault |-> track.isDefault, autoselect |-> track.autoselect,
     forced |-> IF type = "SUBTITLES" THEN track.isForced ELSE FALSE,
     uri |-> proxyBaseUrl \o track.relativePath]

\* Associations are kept instead of cleared
KeepAssociations(v) == v

\* The old renditions lose their default flag instead of being dropped
DemoteAssociations(v) ==
    [v EXCEPT !.audio = [i \in 1..Len(@) |-> [@[i] EXCEPT !.isDefault = FALSE]],
              !.subtitles = [i \in 1..Len(@) |-> [@[i] EXCEPT !.isDefault = FALSE]]]

\* v.audio = []; v.subtitles = []
ClearAssociations(v) == [v EXCEPT !.audio = <<>>, !.subtitles = <<>>]

Mp4aTag == <<"mp4a.40.2">>

\* variant.codecs += ',mp4a.40.2' when a default audio track is supplied and
\* the variant has a codec string without an AAC tag
WithAacCodec(v, audioTracks) ==
    IF /\ \E i \in 1..Len(audioTracks) : audioTracks[i].isDefault
       /\ v.codecs # <<>>
       /\ ~\E i \in 1..Len(v.codecs) : v.codecs[i] = Mp4aTag[1]
    THEN [v EXCEPT !.codecs = @ \o <<",">> \o Mp4aTag]
    ELSE v

\* The playlist addMediaToMasterPlaylist writes back, from the parsed one
WithMedia(playlist, videoId, audioTracks, subtitleTracks) ==
    LET proxyBaseUrl == ProxyBaseUrlOf[videoId]
        audio == [i \in 1..Len(audioTracks) |->
                    Rendition("AUDIO", AUDIO_GROUP_ID, audioTracks[i], proxyBaseUrl)]
        subs  == [i \in 1..Len(subtitleTracks) |->
                    Rendition("SUBTITLES", SUBTITLE_GROUP_ID, subtitleTracks[i], proxyBaseUrl)]
        Relink(v) ==
            LET w == ClearAssociations(v)
            IN  WithAacCodec([w EXCEPT !.audio = @ \o audio, !.subtitles = @ \o subs],
                             audioTracks)
    IN  [variants |-> [i \in 1..Len(playlist.variants) |-> Relink(playlist.variants[i])]]

\* Every check passes
AnyPlaylist(playlist) == TRUE

\* playlist instanceof types.MasterPlaylist
InstanceOfMasterPlaylist(playlist) == playlist.isMasterPlaylist

\* The message of the error thrown for a playlist that is no MasterPlaylist
NotMasterMessage == <<"El archivo no es un Master Playlist valido.">>

ReadFileMessage == <<"ENOENT">>

\* Files at the target path that are not master playlists: a media playlist
\* and a text that is no playlist
ForeignFiles ==
    { << [tag |-> "EXTM3U"], [tag |-> "EXT-X-TARGETDURATION"],
         [tag |-> "EXTINF"], [tag |-> "EXT-X-ENDLIST"] >>,
      << [tag |-> "text"] >> }

\* Renditions per variant and media lines in the file, by kind
MediaCounts(text) ==
    LET vs == Parse(text).variants
        Total(type) ==
            Cardinality({i \in 1..Len(text) :
                            text[i].tag = "EXT-X-MEDIA" /\ text[i].type = type})
    IN  [audio |-> [i \in 1..Len(vs) |-> Len(vs[i].audio)],
         subtitles |-> [i \in 1..Len(vs) |-> Len(vs[i].subtitles)],
         totalAudio |-> Total("AUDIO"),
         totalSubtitles |-> Total("SUBTITLES")]

NoTracks ==
    [audio |-> <<>>, subtitles |-> <<>>, before |-> 0, repeat |-> FALSE,
     once |-> MediaCounts(<<>>), error |-> <<>>]

InitPlaylist ==
    /\ TrackerInit
    /\ disk = {}
    /\ file = NoFile
    /\ resolutions = [defined |-> TRUE, list |-> <<>>]
    /\ masterName = DefaultMasterPlaylistName
    /\ conv = [c \in Convs |-> IdleConv]
    /\ pin = <<>>
    /\ pout = <<>>
    /\ CallIdle
    /\ mres \in { [i \in 1..Len(l) |-> ResolutionResult(l[i])] :
                    l \in SeqsUpTo(ResultSpecs, MaxResults) \ {<<>>} }
    /\ \/ mfile = <<>> /\ mstep = "start"
       \/ mfile \in ForeignFiles /\ mstep = "found"
    /\ mtracks = NoTracks

\* createMasterPlaylist(outputDir, mres, options, videoId)
CreateMaster ==
    /\ mstep \in {"start", "found", "rejected"}
    /\ mfile' = Stringify(MasterPlaylistOf(mres, PlaylistVideoId))
    /\ mstep' = "created"
    /\ UNCHANGED <<trackerVars, orchVars, plannerVars, callVars, disk, mres, mtracks>>

\* addMediaToMasterPlaylist(masterPlaylistPath, videoId, audioTracks, subtitleTracks)
\* on a file that parses as a master playlist: the file is written back.
\* mtracks keeps the call's track lists, the variant count before it, whether
\* it repeats the lists of the call before it, and the counts that call left.
AttachMedia ==
    /\ mstep # "off"
    /\ mfile # <<>>
    /\ InstanceOfMasterPlaylist(Parse(mfile))
    /\ \E a \in AudioTrackLists, t \in SubtitleTrackLists :
          /\ mfile' = Stringify(WithMedia(Parse(mfile), PlaylistVideoId, a, t))
          /\ mtracks' = [audio |-> a, subtitles |-> t,
                         before |-> Len(Parse(mfile).variants),
                         repeat |-> /\ mstep = "attached"
                                    /\ mtracks.audio = a
                                    /\ mtracks.subtitles = t,
                         once |-> MediaCounts(mfile),
                         error |-> <<>>]
    /\ mstep' = "attached"
    /\ UNCHANGED <<trackerVars, orchVars, plannerVars, callVars, disk, mres>>

\* addMediaToMasterPlaylist when fs.readFile rejects (there is no file) or the
\* parsed playlist is no MasterPlaylist: the error is logged and rethrown
\* before fs.writeFile is reached
AttachMediaReject ==
    /\ mstep # "off"
    /\ mfile = <<>> \/ ~InstanceOfMasterPlaylist(Parse(mfile))
    /\ mtracks' = [NoTracks EXCEPT
                     !.error = IF mfile = <<>> THEN ReadFileMessage
                               ELSE NotMasterMessage]
    /\ mstep' = "rejected"
    /\ UNCHANGED <<trackerVars, orchVars, plannerVars, callVars, disk, mres, mfile>>

NextPlaylist ==
    \/ CreateMaster
    \/ AttachMedia
    \/ AttachMediaReject

SpecPlaylist == InitPlaylist /\ [][NextPlaylist]_vars


Variants(text) == Parse(text).variants

\* C9: the master playlist createMasterPlaylist writes lists one variant per
\* result, and the variants' bandwidths never decrease down the file.
C9_AscendingBandwidth ==
    mstep = "created" =>
        LET vs == Variants(mfile)
        IN  /\ Len(vs) = Len(mres)
            /\ \A i, j \in 1..Len(vs) : i < j => vs[i].bandwidth <= vs[j].bandwidth
            /\ \A b \in {mres[i].bandwidth : i \in 1..Len(mres)} :
                  Cardinality({i \in 1..Len(vs) : vs[i].bandwidth = b})
                      = Cardinality({i \in 1..Len(mres) : mres[i].bandwidth = b})

\* A playlist was written from results that arrived out of order
C9_Witness ==
    /\ mstep = "created"
    /\ \E i, j \in 1..Len(mres) : i < j /\ mres[i].bandwidth > mres[j].bandwidth

Names(rs) == {rs[i].name : i \in 1..Len(rs)}

GroupIds(rs) == {rs[i].groupId : i \in 1..Len(rs)}

TrackSet(ts) == {ts[i] : i \in 1..Len(ts)}

StreamInfs(text) == SelectSeq(text, IsStreamInf)

\* C10 as stated: after attachMedia the re-parsed file has as many variants
\* as before, and every variant references the groups aac-audio and subs
\* with one rendition per supplied track.
C10_AsStated ==
    mstep = "attached" =>
        /\ Len(Variants(mfile)) = mtracks.before
        /\ \A i \in 1..Len(StreamInfs(mfile)) :
              /\ StreamInfs(mfile)[i].audio = AUDIO_GROUP_ID
              /\ StreamInfs(mfile)[i].subtitles = SUBTITLE_GROUP_ID
        /\ \A i \in 1..Len(Variants(mfile)) :
              /\ Len(Variants(mfile)[i].audio) = Len(mtracks.audio)
              /\ Len(Variants(mfile)[i].subtitles) = Len(mtracks.subtitles)

\* C10, per kind of track: after attachMedia the re-parsed file has as many variants as
\* before; for a kind (audio, subtitles) with supplied tracks every variant
\* references that kind's group (aac-audio, subs) and nothing else, with one
\* rendition per distinct supplied track; for a kind without supplied tracks
\* the variants reference no group of that kind.
C10_RoundTrip ==
    mstep = "attached" =>
        /\ Len(Variants(mfile)) = mtracks.before
        /\ \A i \in 1..Len(StreamInfs(mfile)) :
              LET l == StreamInfs(mfile)[i]
                  v == Variants(mfile)[i]
              IN  /\ l.audio = IF mtracks.audio = <<>> THEN <<>> ELSE AUDIO_GROUP_ID
                  /\ l.subtitles = IF mtracks.subtitles = <<>> THEN <<>> ELSE SUBTITLE_GROUP_ID
                  /\ GroupIds(v.audio) \subseteq {AUDIO_GROUP_ID}
                  /\ GroupIds(v.subtitles) \subseteq {SUBTITLE_GROUP_ID}
                  /\ Len(v.audio) = Cardinality(TrackSet(mtracks.audio))
                  /\ Len(v.subtitles) = Cardinality(TrackSet(mtracks.subtitles))
                  /\ Names(v.audio) = {t.name : t \in TrackSet(mtracks.audio)}
                  /\ Names(v.subtitles) = {t.name : t \in TrackSet(mtracks.subtitles)}

\* Two different audio tracks and a subtitle track were attached to a playlist
\* of at least two variants
C10_Witness ==
    /\ mstep = "attached"
    /\ Len(mtracks.audio) = 2
    /\ Cardinality(TrackSet(mtracks.audio)) = 2
    /\ mtracks.subtitles # <<>>
    /\ mtracks.before >= 2

C12_RejectsWithoutWriting ==
    [][(mstep' \in {"attached", "rejected"} /\ mfile # <<>>
            /\ ~Parse(mfile).isMasterPlaylist)
        => (mstep' = "rejected" /\ mtracks'.error = NotMasterMessage /\ mfile' = mfile)]_vars

\* An attachMedia call on a media playlist was rejected
C12_Witness ==
    /\ mstep = "rejected"
    /\ mtracks.error = NotMasterMessage
    /\ mfile \in ForeignFiles
    /\ Len(mfile) > 1

(***************************************************************************)
(* The utility functions on their own: one call, then its return value     *)
(***************************************************************************)
MaxBitrateLen == 3

BitrateChars == {"0", "1", "5", "k", ".", "a"}

\* Bitrate strings of a rendition spec: "1", "15k", "1.5", "abc"-like, "0k", ...
BitrateStrings == SeqsUpTo(BitrateChars, MaxBitrateLen) \ {<<>>}

Ep1 == <<"e", "p", "1">>

\* The template of scenario D, with the asset-id token as the code spells it
BareTemplate == BasePathToken \o VideoIdToken \o <<"/">>

ProxyVideoIds == { Ep1, <<>>, <<"a", "/", "/", "b">>, <<"/", "e", "p", "1", "/">> }

ProxyBasePaths ==
    { <<>>, <<"m">>, <<"m", "/">>, <<"m", "/", "/">>,
      <<"h", "t", "t", "p", ":", "/", "/", "h", "/">>, <<"f", ":", "/", "x">> }

ProxyTemplates == { BareTemplate, ProxyBaseUrlTemplate, VideoIdToken \o <<"/", "/">> \o BasePathToken }

PolicyNames ==
    { <<"4", "8", "0", "p">>, <<"7", "2", "0", "p">>, <<"1", "0", "8", "0", "p">>,
      <<"7", "2", "0">>, <<"4", "k">>, <<"s", "d">>, <<"p", "7", "2", "0">>,
      <<"7", "2", "0", "p", "6", "0">> }

PolicyThresholds == { CopyCodecsThresholdHeight, 480, 1080 }

Calls ==
    { [fn |-> "bandwidth", bitrate |-> b, done |-> FALSE] : b \in BitrateStrings }
    \cup
    { [fn |-> "codecPolicy", name |-> n, isOriginal |-> o, threshold |-> t,
       done |-> FALSE] : n \in PolicyNames, o \in BOOLEAN, t \in PolicyThresholds }
    \cup
    { [fn |-> "generateProxyBaseUrl", videoId |-> v, basePath |-> b, template |-> t,
       done |-> FALSE] : v \in ProxyVideoIds, b \in ProxyBasePaths, t \in ProxyTemplates }

InitCalls ==
    /\ TrackerInit
    /\ disk = {}
    /\ file = NoFile
    /\ resolutions = [defined |-> TRUE, list |-> <<>>]
    /\ masterName = DefaultMasterPlaylistName
    /\ conv = [c \in Convs |-> IdleConv]
    /\ PlannerIdle
    /\ PlaylistIdle
    /\ call \in Calls
    /\ ret = <<>>

\* processResolution computes the bandwidth of its rendition spec
BandwidthCall ==
    /\ call.fn = "bandwidth"
    /\ ~call.done
    /\ ret' = Bandwidth(call.bitrate)
    /\ call' = [call EXCEPT !.done = TRUE]
    /\ UNCHANGED <<trackerVars, orchVars, plannerVars, playlistVars, disk>>

\* generateProxyBaseUrl(videoId, basePath, proxyBaseUrlTemplate)
ProxyBaseUrlCall ==
    /\ call.fn = "generateProxyBaseUrl"
    /\ ~call.done
    /\ ret' = GenerateProxyBaseUrl(call.videoId, call.basePath, call.template)
    /\ call' = [call EXCEPT !.done = TRUE]
    /\ UNCHANGED <<trackerVars, orchVars, plannerVars, playlistVars, disk>>

\* processResolution chooses between stream copy and re-encoding
CodecPolicyCall ==
    /\ call.fn = "codecPolicy"
    /\ ~call.done
    /\ ret' = CodecPolicy([name |-> call.name, isOriginal |-> call.isOriginal],
                          call.threshold)
    /\ call' = [call EXCEPT !.done = TRUE]
    /\ UNCHANGED <<trackerVars, orchVars, plannerVars, playlistVars, disk>>

NextCalls ==
    \/ BandwidthCall
    \/ CodecPolicyCall
    \/ ProxyBaseUrlCall

SpecCalls == InitCalls /\ [][NextCalls]_vars

\* C13: the bandwidth of a rendition is strictly positive; it is the number
\* the bitrate string parses to times 1000 when that number is not zero, and
\* 500000 when the string does not parse to a number.
C13_BandwidthOfBitrate ==
    (call.fn = "bandwidth" /\ call.done) =>
        LET n == ParseInt(call.bitrate)
        IN  /\ ret > 0
            /\ n.nan => ret = 500000
            /\ (~n.nan /\ n.val # 0) => ret = n.val * 1000

\* The bandwidth is strictly positive, and is 500000 for a string without a
\* digit or whose digits form zero
C13_PositiveBandwidth ==
    (call.fn = "bandwidth" /\ call.done) =>
        /\ ret > 0
        /\ ((\A i \in 1..Len(call.bitrate) : call.bitrate[i] \in {"0", "k", ".", "a"})
                => ret = 500000)

HasDoubleSlash(s) ==
    \E i \in 1..(Len(s) - 1) :
        /\ s[i] = "/"
        /\ s[i + 1] = "/"
        /\ ~(i > 1 /\ s[i - 1] = ":")

\* C14: generateProxyBaseUrl("ep1", "", "{basePath}{videoId}/") returns "ep1/",
\* and no returned URL holds a double slash other than the one directly after
\* a URI scheme.
C14_ProxyBaseUrl ==
    (call.fn = "generateProxyBaseUrl" /\ call.done) =>
        /\ (call.videoId = Ep1 /\ call.basePath = <<>> /\ call.template = BareTemplate)
               => ret = Ep1 \o <<"/">>
        /\ ~HasDoubleSlash(ret)

-----------------------------------------------------------------------------
(* Claims about the task store file *)

\* The errors a conversion throws of its own
ConversionErrors == {"validation", "mkdir", "probe", "plan", "aggregate", "empty", "playlist"}

AllWorkersOk(c) ==
    /\ conv[c].work # <<>>
    /\ \A i \in 1..Len(conv[c].work) : conv[c].work[i] = "ok"

\* C15: whatever the reads and flushes of the task store file do, a
\* conversion that has thrown has thrown an error of its own, and a conversion
\* whose workers all succeeded has thrown only if writing the master playlist
\* failed; otherwise it goes on to return its result.
C15_StoreNeverDecides ==
    \A c \in Convs :
        /\ conv[c].error \in ConversionErrors \cup {"none"}
        /\ conv[c].pc = "thrown" <=> conv[c].error \in ConversionErrors
        /\ (conv[c].pc = "thrown" /\ AllWorkersOk(c)) => conv[c].error = "playlist"
        /\ (conv[c].pc = "returned") => (AllWorkersOk(c) /\ conv[c].master # <<>>)

\* A conversion has returned although no flush of the task store ever landed
C15_Witness ==
    \E c \in Convs :
        /\ conv[c].pc = "returned"
        /\ ~file.exists
        /\ writes = {}
        /\ load.pc = "done"

-----------------------------------------------------------------------------
(* Claims about input validation *)

AllowedIdChars ==
    {UpperChars[i] : i \in 1..26} \cup {LowerChars[i] : i \in 1..26}
        \cup {DigitChars[i] : i \in 1..10} \cup {"_", "-", "/"}

HasAllowedExtension(path) ==
    \E ext \in ValidExtensions : EndsWith(ToLowerCase(path), ext)

\* The caller supplied no character of an asset identifier
EmptyAssetId(videoId) == \A i \in 1..Len(videoId) : videoId[i] = "/"

BadInput(c) ==
    \/ ~HasAllowedExtension(conv[c].path)
    \/ EmptyAssetId(conv[c].videoId)
    \/ \E i \in 1..Len(conv[c].videoId) : conv[c].videoId[i] \notin AllowedIdChars

\* C16: a conversion started on a path without an allowed extension, or on
\* an asset identifier that is empty or holds a character outside letters,
\* digits, '_', '-' and '/', has thrown a validation error and has done
\* nothing else: no task was created and the task map is unchanged.
C16_FailsFast ==
    \A c \in Convs :
        (conv[c].pc # "idle" /\ BadInput(c)) =>
            /\ conv[c].pc = "thrown"
            /\ conv[c].error = "validation"
            /\ conv[c].taskId = NoTask
            /\ tasks = <<>>
            /\ writes = {}

-----------------------------------------------------------------------------
(* Claims about what a conversion leaves behind *)

\* An entry of a task's data that carries the fields of a rendition result
HoldsResult(entries, r) ==
    \E i \in 1..Len(entries) :
        /\ {"bandwidth", "playlistRelativePath"} \subseteq DOMAIN entries[i]
        /\ entries[i].name = r.name
        /\ entries[i].size = r.size
        /\ entries[i].bitrate = r.bitrate
        /\ entries[i].bandwidth = r.bandwidth
        /\ entries[i].playlistRelativePath = r.playlistRelativePath

\* C17: after a conversion has returned, the task the map holds under its id
\* is completed and its data lists every successful rendition with name,
\* size, bitrate, bandwidth and playlistRelativePath.
C17_TaskHoldsFinalResults ==
    \A c \in Convs :
        conv[c].pc = "returned" =>
            LET id == conv[c].taskId
                results == SuccessfulResults(conv[c].targets, conv[c].work)
            IN  /\ id \in DOMAIN tasks
                /\ tasks[id].status = "completed"
                /\ \A i \in 1..Len(results) :
                      HoldsResult(tasks[id].data.resolutions, results[i])

\* C18: once a conversion has failed its task and thrown because some of its
\* workers failed, the output of each of its successful workers is still on
\* disk, in its rendition directory.
C18_NoRollback ==
    \A c \in Convs :
        (conv[c].pc = "thrown" /\ conv[c].error = "aggregate") =>
            \A i \in 1..Len(conv[c].work) :
                conv[c].work[i] = "ok" =>
                    /\ RenditionOutput(conv[c].videoId, conv[c].targets[i].name) \in disk
                    /\ RenditionDir(conv[c].videoId, conv[c].targets[i].name) \in disk

\* One worker failed, another succeeded, and the conversion has thrown
C18_Witness ==
    \E c \in Convs :
        /\ conv[c].pc = "thrown"
        /\ conv[c].error = "aggregate"
        /\ "failed" \in CallSet(c)
        /\ Cardinality(FailedWorkers(c)) = 1
        /\ \E i \in 1..Len(conv[c].work) : conv[c].work[i] = "ok"

\* Two workers that run at the same time, of one conversion or of two
RunningTogether(c, i, d, j) ==
    /\ <<c, i>> # <<d, j>>
    /\ conv[c].pc = "encoding"
    /\ conv[d].pc = "encoding"
    /\ i \in 1..Len(conv[c].work)
    /\ j \in 1..Len(conv[d].work)
    /\ conv[c].work[i] \in {"dir", "enc"}
    /\ conv[d].work[j] \in {"dir", "enc"}

\* C19: any two workers that run at the same time have different
\* (asset id, rendition name) pairs, hence different output files.
C19_DisjointOutputs ==
    \A c, d \in Convs : \A i, j \in 1..3 :
        RunningTogether(c, i, d, j) =>
            RenditionOutput(conv[c].videoId, conv[c].targets[i].name)
                # RenditionOutput(conv[d].videoId, conv[d].targets[j].name)

-----------------------------------------------------------------------------
(* Claims about the Planner's sort step *)

HasLabel(list) == \E i \in 1..Len(list) : ParseInt(list[i].name).nan

\* The sort step ran: the source resolution was pushed onto the list
Pushed == Len(pout.targets) = Len(pin.user) + 1

-----------------------------------------------------------------------------
(* Claims about what the Planner returns *)

\* No user spec carries the source's label and none has the source's size
NeitherLabelNorSize ==
    /\ \A i \in 1..Len(pin.user) : pin.user[i].name # OriginalResName(pin.src.h)
    /\ FirstWithSize(pin.user, SizeString(pin.src.w, pin.src.h)) = 0

Range(list) == { list[i] : i \in 1..Len(list) }

\* The list without its k-th element
Without(list, k) == SubSeq(list, 1, k - 1) \o SubSeq(list, k + 1, Len(list))

\* Specs with a numeric prefix are in ascending order of it
AscendingByNumericPrefix(list) ==
    \A i, j \in 1..Len(list) :
        (i < j /\ HasNumericName(list[i]) /\ HasNumericName(list[j]))
            => ParseInt(list[i].name).val <= ParseInt(list[j].name).val

\* The targets are the user specs plus one synthetic spec for the source
UserPlusSynthetic ==
    /\ Len(pout.targets) = Len(pin.user) + 1
    /\ \E k \in 1..Len(pout.targets) :
          /\ pout.targets[k] = OriginalSpec(pin.src.w, pin.src.h, pin.src.b)
          /\ Range(Without(pout.targets, k)) = Range(pin.user)

\* C21: when no user spec is named "{height}p" and none has the size
\* "{width}x{height}", the Planner returns the user specs plus exactly one
\* synthetic spec (source label, source size, source bitrate, isOriginal),
\* and the whole list is in ascending order of the numeric prefix of name.
C21_SyntheticSpecSorted ==
    (pout.done /\ NeitherLabelNorSize) =>
        /\ UserPlusSynthetic
        /\ AscendingByNumericPrefix(pout.targets)

\* The same for user lists whose labels all start with a number
C21_NumericLabelsSorted ==
    (pout.done /\ NeitherLabelNorSize /\ ~HasLabel(pin.user)) =>
        /\ UserPlusSynthetic
        /\ AscendingByNumericPrefix(pout.targets)
        /\ IsOriginalCount(pout.targets) = 1

\* Some user spec with another label than the source's has the source's size
LabelledSourceSize ==
    \E i \in 1..Len(pin.user) :
        /\ pin.user[i].size = SizeString(pin.src.w, pin.src.h)
        /\ pin.user[i].name # OriginalResName(pin.src.h)

\* Same length and order as the user list, the spec of the source's size flagged
SameListSourceFlagged ==
    /\ Len(pout.targets) = Len(pin.user)
    /\ \A i \in 1..Len(pin.user) :
          pout.targets[i] =
              IF pin.user[i].size = SizeString(pin.src.w, pin.src.h)
              THEN MarkOriginal(pin.user[i])
              ELSE pin.user[i]

\* C22: when a user spec with a label other than "{height}p" has the exact
\* source size, the Planner adds no spec (same length and order as the user
\* list) and the spec with that size is the one flagged isOriginal.
C22_ExistingSpecFlagged ==
    (pout.done /\ LabelledSourceSize) => SameListSourceFlagged

\* The same when, in addition, no user spec carries the source's label
C22_FlaggedWhenLabelFree ==
    (/\ pout.done
     /\ LabelledSourceSize
     /\ \A i \in 1..Len(pin.user) : pin.user[i].name # OriginalResName(pin.src.h))
        => SameListSourceFlagged

-----------------------------------------------------------------------------
(* Claims about the copy policy of the Rendition Worker *)

\* A plain numeric height label: digits, optionally followed by "p"
PlainHeightLabel(name) ==
    /\ DigitRun(name) >= 1
    /\ SubSeq(name, DigitRun(name) + 1, Len(name)) \in { <<>>, <<"p">> }

HeightOfLabel(name) == DigitsValue(SubSeq(name, 1, DigitRun(name)), 0)

\* C23: a worker copies the streams of a spec if and only if the spec is
\* flagged isOriginal and the numeric height of its name is at most the copy
\* threshold; every other spec is re-encoded, and a name that is no plain
\* numeric height label (such as "4k") is never copied.
C23_CopyPolicy ==
    (call.fn = "codecPolicy" /\ call.done) =>
        /\ ret \in {"copy", "reencode"}
        /\ ret = "copy" <=>
              /\ call.isOriginal
              /\ PlainHeightLabel(call.name)
              /\ HeightOfLabel(call.name) <= call.threshold

\* The same for plain numeric height labels and for names without a leading
\* digit
C23_PlainLabelPolicy ==
    (/\ call.fn = "codecPolicy"
     /\ call.done
     /\ (PlainHeightLabel(call.name) \/ DigitRun(call.name) = 0)) =>
        (ret = "copy" <=>
              /\ call.isOriginal
              /\ PlainHeightLabel(call.name)
              /\ HeightOfLabel(call.name) <= call.threshold)

-----------------------------------------------------------------------------
(* Claims about the Task Tracker and its store file *)

\* Some conversion has created its task in this process
TaskCreated == \E c \in Convs : conv[c].taskId # NoTask

\* The task map the store file holds; no file counts as the empty map
FileMap == IF file.exists THEN file.content ELSE <<>>

\* The ids under which f lacks or differs from what t holds
Lacking(f, t) == { id \in DOMAIN t : id \notin DOMAIN f \/ f[id] # t[id] }

\* f can be t as it stood before its last mutation: the one task f lacks was
\* just created, or the one task that differs does so in its status only
AtMostOneBehind(f, t) ==
    /\ DOMAIN f \subseteq DOMAIN t
    /\ Cardinality(Lacking(f, t)) <= 1
    /\ \A id \in Lacking(f, t) :
          \/ t[id].status = PendingStatus
          \/ id \in DOMAIN f /\ [f[id] EXCEPT !.status = t[id].status] = t[id]

\* C24: the store file mirrors the in-memory task map: once every flush
\* started by create and setStatus has finished the file holds exactly the
\* map, and at every point it holds the map as it stood after some earlier
\* mutation, lacking at most the most recent one.
C24_FileMirrorsMap ==
    TaskCreated =>
        /\ writes = {} => FileMap = tasks
        /\ AtMostOneBehind(FileMap, tasks)

\* C25: every create returns an id that no task already in the store has, so
\* create never overwrites or resets an existing task record, also when two
\* conversions create their tasks at the same clock reading.
C25_CreateReturnsFreshId ==
    [][\A c \in Convs :
          (conv[c].taskId = NoTask /\ conv'[c].taskId # NoTask) =>
              /\ conv'[c].taskId \notin DOMAIN tasks
              /\ \A id \in DOMAIN tasks : tasks'[id] = tasks[id]]_vars

\* The same for creates at a clock reading no earlier create has used
C25_FreshIdAtNewReading ==
    [][\A c \in Convs :
          (/\ conv[c].taskId = NoTask
           /\ conv'[c].taskId # NoTask
           /\ \A d \in Convs : conv[d].taskId # ToStr(clock)) =>
              /\ conv'[c].taskId \notin DOMAIN tasks
              /\ \A id \in DOMAIN tasks : tasks'[id] = tasks[id]]_vars

-----------------------------------------------------------------------------
(* Claims about the size of the plan *)

\* C26: the Planner never yields zero targets: for every source and every
\* user-defined rendition list, the empty list included, the returned target
\* list is non-empty.
C26_PlanNeverEmpty ==
    pout.done => Len(pout.targets) >= 1

\* The Planner was called with the empty list and returned the source spec
C26_Witness ==
    /\ pout.done
    /\ pin.user = <<>>
    /\ pout.targets = <<OriginalSpec(pin.src.w, pin.src.h, pin.src.b)>>

\* In the orchestrator: every planned conversion has a target, and no
\* conversion fails for having no successful resolution
C26_EmptyBranchUnreachable ==
    \A c \in Convs :
        /\ conv[c].error # "empty"
        /\ conv[c].pc \in {"prepared", "encoding", "playlisting", "returned"}
              => Len(conv[c].targets) >= 1

-----------------------------------------------------------------------------
(* Claims about the steps of one Rendition Worker *)

WorkerDir(c, i) == RenditionDir(conv[c].videoId, conv[c].targets[i].name)

\* C27: within one worker the rendition's directory exists before the encoder
\* is invoked: a worker whose encoder runs or has run has its directory, the
\* encoder starts only out of the directory step, and a worker that failed
\* (the directory step included) never invokes the encoder afterwards.
C27_DirectoryBeforeEncode ==
    /\ [](\A c \in Convs : \A i \in 1..Len(conv[c].work) :
            conv[c].work[i] \in {"enc", "ok"} => WorkerDir(c, i) \in disk)
    /\ [][\A c \in Convs : \A i \in 1..Len(conv[c].work) :
            (conv[c].pc = "encoding" /\ conv'[c].pc = "encoding") =>
                /\ (conv[c].work[i] # "enc" /\ conv'[c].work[i] = "enc")
                       => (conv[c].work[i] = "dir" /\ WorkerDir(c, i) \in disk')
                /\ conv[c].work[i] = "failed" => conv'[c].work[i] = "failed"]_vars

\* One worker encodes in its directory while another failed at the directory
\* step and has none
C27_Witness ==
    \E c \in Convs : \E i, j \in 1..Len(conv[c].work) :
        /\ conv[c].work[i] = "enc"
        /\ WorkerDir(c, i) \in disk
        /\ conv[c].work[j] = "failed"
        /\ WorkerDir(c, j) \notin disk

-----------------------------------------------------------------------------
(* Claims about when the master playlist is written *)

PlannedUris(c) ==
    { ProxyBaseUrlOf[conv[c].videoId] \o PlaylistRelativePath(conv[c].targets[i].name) :
        i \in 1..Len(conv[c].targets) }

ListedUris(text) == { Variants(text)[i].uri : i \in 1..Len(Variants(text)) }

\* createMasterPlaylist was invoked for the conversion
MasterInvoked(c) == conv[c].pending # <<>>

\* C28: a master playlist is written for a conversion only when every one of
\* its workers succeeded: with a failed worker createMasterPlaylist is never
\* invoked, and a master playlist a conversion produced lists exactly the
\* planned renditions.
C28_MasterOnlyAfterFullSuccess ==
    \A c \in Convs :
        /\ MasterInvoked(c) =>
              /\ Len(conv[c].work) = Len(conv[c].targets)
              /\ \A i \in 1..Len(conv[c].work) : conv[c].work[i] = "ok"
              /\ Len(Variants(conv[c].pending)) = Len(conv[c].targets)
              /\ ListedUris(conv[c].pending) = PlannedUris(c)
        /\ conv[c].master # <<>> =>
              /\ MasterInvoked(c)
              /\ conv[c].master = conv[c].pending
        /\ conv[c].pc = "playlisting" => MasterInvoked(c)

\* A conversion returned a master playlist of two renditions
C28_Witness ==
    \E c \in Convs :
        /\ conv[c].pc = "returned"
        /\ Len(conv[c].targets) = 2
        /\ Len(Variants(conv[c].master)) = 2

-----------------------------------------------------------------------------
(* Claims about the life of a created task *)

\* C29: once create has returned an id, get(id) returns that task in every
\* later state and setStatus(id, ...) succeeds: no tracker operation, the
\* initial load of the store file included, removes a task created in the
\* running process.
C29_CreatedTaskStays ==
    \A c \in Convs :
        conv[c].taskId # NoTask =>
            /\ conv[c].taskId \in DOMAIN tasks
            /\ GetTaskStatus(tasks, conv[c].taskId) # "null"
            /\ tasks[conv[c].taskId].id = conv[c].taskId

\* The same once the initial load is over before the first create
C29_StaysAfterLoad ==
    [][load.pc = "done" =>
          \A id \in DOMAIN tasks : id \in DOMAIN tasks']_vars

-----------------------------------------------------------------------------
(* Claims about what the Planner does to its argument *)

\* C30: the Planner leaves its inputs unchanged: after the call the user list
\* passed to it has the same length, the same order and the same field
\* values, isOriginal included, on every spec as before the call.
C30_InputUnchanged ==
    pout.done => pout.user = pin.user

\* Length, order and every field other than isOriginal are as before the call,
\* and a flag is only ever set
C30_OnlyFlagChanges ==
    pout.done =>
        /\ Len(pout.user) = Len(pin.user)
        /\ \A i \in 1..Len(pin.user) :
              /\ [pout.user[i] EXCEPT !.isOriginal = pin.user[i].isOriginal] = pin.user[i]
              /\ pin.user[i].isOriginal => pout.user[i].isOriginal

====
